---- MODULE Spec2Model ----
(***************************************************************************)
(* Model of db_connect.py: a one-shot catalog reporter.  main() connects,  *)
(* lists the tables, describes each, lists the functions, runs the keyword *)
(* search, previews the definition of each matching function and closes    *)
(* the connection.  Everything the program prints and every helper it      *)
(* calls is appended, in program order, to one sequence of events, trace.  *)
(***************************************************************************)
EXTENDS Integers, Sequences, FiniteSets

VARIABLES
    pc,          \* position of main()
    conn,        \* the connection object: "none", "open" or "closed"
    db,          \* what the catalog holds: [tables, functions]
    trace,       \* events so far: prints, helper calls, executes, close
    tables,      \* main's local `tables`
    functions,   \* main's local `functions`
    ai_items,    \* main's local `ai_items`
    definition,  \* main's local `definition`: <<>> for None, <<text>> for a text
    i,           \* index of the running for-loop
    exitStatus   \* "running", "0" or "1"

vars == <<pc, conn, db, trace, tables, functions, ai_items, definition, i, exitStatus>>

(***************************************************************************)
(* Bounds                                                                  *)
(***************************************************************************)
MaxTables == 2
MaxFunctions == 2

(***************************************************************************)
(* The catalog.  The names of the public schema, in the order ORDER BY     *)
(* returns them; a run sees a sub-listing of each.                         *)
(***************************************************************************)
TableUniverse == <<"match_results", "players", "referee_reports">>
FunctionUniverse == <<"ai_suggest", "calc_score", "rate_referee", "train_ai">>
ColumnOrder == <<"detail", "email", "id", "name", "referee_id", "score">>

\* The rows of information_schema.columns of one table, by ordinal position.
TableColumns(t) ==
    IF t = "match_results" THEN
        << <<"id", "integer", "NO">>, <<"score", "integer", "YES">> >>
    ELSE IF t = "players" THEN
        << <<"id", "integer", "NO">>, <<"name", "text", "YES">>,
           <<"email", "text", "YES">> >>
    ELSE
        << <<"id", "integer", "NO">>, <<"referee_id", "integer", "NO">>,
           <<"detail", "text", "YES">> >>

\* name ILIKE '%referee%' OR name ILIKE '%ai%', on the names of the catalog.
IsRelated(name) ==
    name \in {"referee_reports", "ai_suggest", "rate_referee", "train_ai",
              "referee_id", "email", "detail"}

\* Strictly increasing index sequences pick a listing without repetition;
\* non-decreasing ones allow overloaded functions (one routines row each).
Listings(universe, max, strict) ==
    { [k \in DOMAIN s |-> universe[s[k]]] :
        s \in { q \in UNION { [1..n -> 1..Len(universe)] : n \in 0..max } :
                  \A a, b \in DOMAIN q :
                      a < b => IF strict THEN q[a] < q[b] ELSE q[a] <= q[b] } }

(***************************************************************************)
(* Events                                                                  *)
(***************************************************************************)
Ev(ev, tag, arg, c) == [ev |-> ev, tag |-> tag, arg |-> arg, conn |-> c]
Line(c, tag, arg) == Ev("print", tag, arg, c)
Call(c, tag, arg) == Ev("call", tag, arg, c)
Execute(c, tag) == Ev("execute", tag, <<>>, c)

\* Observations on a sequence of events.
CallsIn(tr, tag) == SelectSeq(tr, LAMBDA e : e.ev = "call" /\ e.tag = tag)
LinesIn(tr, tag) == SelectSeq(tr, LAMBDA e : e.ev = "print" /\ e.tag = tag)
ErrorTags == {"ErrTables", "ErrSchema", "ErrFunctions", "ErrSearch", "ErrDefinition"}
HasError(tr) == \E k \in DOMAIN tr : tr[k].ev = "print" /\ tr[k].tag \in ErrorTags

EmptyBundle == [tables |-> <<>>, functions |-> <<>>, columns |-> <<>>]

(***************************************************************************)
(* Definition texts.  pg_get_functiondef returns the CREATE OR REPLACE     *)
(* FUNCTION statement, so a returned text is never empty.                  *)
(***************************************************************************)
PreviewLen == 100
Chars == <<"C", "R", "E", "A", "T", "E", " ">>
DefText(n) == [k \in 1..n |-> Chars[((k - 1) % Len(Chars)) + 1]]
DefLens == {1, PreviewLen - 1, PreviewLen, PreviewLen + 1, PreviewLen + Len(Chars)}

\* Variant: the slice keeps one character too many.
Truncate_OffByOne(text) ==
    IF Len(text) <= PreviewLen + 1 THEN text
    ELSE SubSeq(text, 1, PreviewLen + 1)

\* definition[:100]
Truncate(text) ==
    IF Len(text) <= PreviewLen THEN text
    ELSE SubSeq(text, 1, PreviewLen)

(***************************************************************************)
(* The helpers.  Each returns its value, the events it produced and        *)
(* whether an exception left it.                                           *)
(***************************************************************************)
\* Variant: a failed listing is tried a second time.
get_tables_Retry(c, fail) ==
    IF fail
    THEN [val |-> db.tables, raised |-> FALSE,
          events |-> <<Call(c, "get_tables", <<>>), Line(c, "ErrTables", <<>>),
                       Call(c, "get_tables", <<>>)>>]
    ELSE [val |-> db.tables, raised |-> FALSE,
          events |-> <<Call(c, "get_tables", <<>>)>>]

get_tables(c, fail) ==
    IF fail
    THEN [val |-> <<>>, raised |-> FALSE,
          events |-> <<Call(c, "get_tables", <<>>), Line(c, "ErrTables", <<>>)>>]
    ELSE [val |-> db.tables, raised |-> FALSE,
          events |-> <<Call(c, "get_tables", <<>>)>>]

\* Variant: the except clause re-raises.
get_table_schema_Reraise(c, table_name, fail) ==
    IF fail
    THEN [val |-> <<>>, raised |-> TRUE,
          events |-> <<Call(c, "get_table_schema", <<table_name>>),
                       Line(c, "ErrSchema", <<table_name>>)>>]
    ELSE [val |-> TableColumns(table_name), raised |-> FALSE,
          events |-> <<Call(c, "get_table_schema", <<table_name>>)>>]

get_table_schema(c, table_name, fail) ==
    IF fail
    THEN [val |-> <<>>, raised |-> FALSE,
          events |-> <<Call(c, "get_table_schema", <<table_name>>),
                       Line(c, "ErrSchema", <<table_name>>)>>]
    ELSE [val |-> TableColumns(table_name), raised |-> FALSE,
          events |-> <<Call(c, "get_table_schema", <<table_name>>)>>]

get_functions(c, fail) ==
    IF fail
    THEN [val |-> <<>>, raised |-> FALSE,
          events |-> <<Call(c, "get_functions", <<>>), Line(c, "ErrFunctions", <<>>)>>]
    ELSE [val |-> db.functions, raised |-> FALSE,
          events |-> <<Call(c, "get_functions", <<>>)>>]

\* What fetchone() can give: an exception, no row, or one row with a text.
DefOutcomes ==
    {[kind |-> "fail", text |-> <<>>], [kind |-> "norow", text |-> <<>>]}
    \cup { [kind |-> "text", text |-> DefText(n)] : n \in DefLens }

\* val is <<>> for None and <<text>> for a text.
get_function_definition(c, function_name, outcome) ==
    IF outcome.kind = "fail"
    THEN [val |-> <<>>, raised |-> FALSE,
          events |-> <<Call(c, "get_function_definition", <<function_name>>),
                       Line(c, "ErrDefinition", <<function_name>>)>>]
    ELSE [val |-> IF outcome.kind = "text" THEN <<outcome.text>> ELSE <<>>,
          raised |-> FALSE,
          events |-> <<Call(c, "get_function_definition", <<function_name>>)>>]

\* The rows of the three search queries.
RelatedTables == SelectSeq(db.tables, IsRelated)
RelatedFunctions == SelectSeq(db.functions, IsRelated)

ColumnNames(t) == { TableColumns(t)[k][1] : k \in DOMAIN TableColumns(t) }

RelatedColumnsOf(t) ==
    LET Hit(cname) == cname \in ColumnNames(t) /\ IsRelated(cname)
        names == SelectSeq(ColumnOrder, Hit)
    IN [k \in DOMAIN names |-> <<t, names[k]>>]

RECURSIVE RelatedColumnsIn(_)
RelatedColumnsIn(ts) ==
    IF ts = <<>> THEN <<>>
    ELSE RelatedColumnsOf(Head(ts)) \o RelatedColumnsIn(Tail(ts))

RelatedColumns == RelatedColumnsIn(db.tables)

\* failAt = 0: no statement fails; failAt = k: the k-th execute raises.
FailPoints == 0..3
SearchStatements == <<"search_tables", "search_functions", "search_columns">>

\* The call and the executes a search issues before it returns or raises.
SearchEvents(c, failAt) ==
    LET n == IF failAt = 0 THEN Len(SearchStatements) ELSE failAt
    IN <<Call(c, "search_ai_referee_related", <<>>)>>
       \o [k \in 1..n |-> Execute(c, SearchStatements[k])]

\* Variant: each of the three queries has its own try/except.
search_ai_referee_related_Partial(c, failAt) ==
    IF failAt = 0
    THEN [val |-> [tables |-> RelatedTables, functions |-> RelatedFunctions,
                   columns |-> RelatedColumns],
          raised |-> FALSE, events |-> SearchEvents(c, failAt)]
    ELSE [val |-> [tables |-> IF failAt > 1 THEN RelatedTables ELSE <<>>,
                   functions |-> IF failAt > 2 THEN RelatedFunctions ELSE <<>>,
                   columns |-> <<>>],
          raised |-> FALSE,
          events |-> Append(SearchEvents(c, failAt), Line(c, "ErrSearch", <<>>))]

search_ai_referee_related(c, failAt) ==
    IF failAt = 0
    THEN [val |-> [tables |-> RelatedTables, functions |-> RelatedFunctions,
                   columns |-> RelatedColumns],
          raised |-> FALSE, events |-> SearchEvents(c, failAt)]
    ELSE [val |-> EmptyBundle, raised |-> FALSE,
          events |-> Append(SearchEvents(c, failAt), Line(c, "ErrSearch", <<>>))]

\* `if definition:` is false for None and for the empty string.
Truthy(val) == val # <<>> /\ Len(val[1]) > 0

(***************************************************************************)
(* main()                                                                  *)
(***************************************************************************)
Init ==
    /\ pc = "connect"
    /\ conn = "none"
    /\ db \in [tables : Listings(TableUniverse, MaxTables, TRUE),
               functions : Listings(FunctionUniverse, MaxFunctions, FALSE)]
    /\ trace = <<>>
    /\ tables = <<>>
    /\ functions = <<>>
    /\ ai_items = EmptyBundle
    /\ definition = <<>>
    /\ i = 1
    /\ exitStatus = "running"

\* Variant: sys.exit(0) after a failed connect.
ConnectToDb_ExitZero ==
    /\ pc = "connect"
    /\ \E ok \in BOOLEAN :
         IF ok
         THEN /\ conn' = "open"
              /\ trace' = trace \o <<Call(conn, "connect_to_db", <<>>),
                                     Line("open", "Connected", <<>>)>>
              /\ pc' = "list_tables"
              /\ exitStatus' = exitStatus
         ELSE /\ conn' = conn
              /\ trace' = trace \o <<Call(conn, "connect_to_db", <<>>),
                                     Line(conn, "ErrConnect", <<>>)>>
              /\ pc' = "exited"
              /\ exitStatus' = "0"
    /\ UNCHANGED <<db, tables, functions, ai_items, definition, i>>

\* Variant: the `if not conn: sys.exit(1)` check is missing.
ConnectToDb_NoExit ==
    /\ pc = "connect"
    /\ \E ok \in BOOLEAN :
         /\ conn' = IF ok THEN "open" ELSE conn
         /\ trace' = trace \o <<Call(conn, "connect_to_db", <<>>),
                                IF ok THEN Line("open", "Connected", <<>>)
                                ELSE Line(conn, "ErrConnect", <<>>)>>
         /\ pc' = "list_tables"
         /\ exitStatus' = exitStatus
    /\ UNCHANGED <<db, tables, functions, ai_items, definition, i>>

\* main, lines 137-139, with connect_to_db, lines 14-22
ConnectToDb ==
    /\ pc = "connect"
    /\ \E ok \in BOOLEAN :
         IF ok
         THEN /\ conn' = "open"
              /\ trace' = trace \o <<Call(conn, "connect_to_db", <<>>),
                                     Line("open", "Connected", <<>>)>>
              /\ pc' = "list_tables"
              /\ exitStatus' = exitStatus
         ELSE /\ conn' = conn
              /\ trace' = trace \o <<Call(conn, "connect_to_db", <<>>),
                                     Line(conn, "ErrConnect", <<>>)>>
              /\ pc' = "exited"
              /\ exitStatus' = "1"
    /\ UNCHANGED <<db, tables, functions, ai_items, definition, i>>

\* Variant: close() written at the end of the happy path only.
FinallyClause_CloseOnCleanRun(tr) ==
    /\ conn' = IF HasError(tr) THEN conn ELSE "closed"
    /\ trace' = IF HasError(tr) THEN Append(tr, Line(conn, "Closed", <<>>))
                ELSE tr \o <<Call(conn, "close", <<>>), Line("closed", "Closed", <<>>)>>
    /\ pc' = "done"
    /\ exitStatus' = "0"
    /\ UNCHANGED <<db, tables, functions, ai_items, definition, i>>

\* The finally clause, lines 179-181; main then returns and the interpreter
\* exits with status 0.
FinallyClause(tr) ==
    /\ conn' = "closed"
    /\ trace' = tr \o <<Call(conn, "close", <<>>), Line("closed", "Closed", <<>>)>>
    /\ pc' = "done"
    /\ exitStatus' = "0"
    /\ UNCHANGED <<db, tables, functions, ai_items, definition, i>>

\* An exception that leaves a helper lands in main's except clause, lines
\* 177-178, and the finally clause follows.
Raised(tr) == FinallyClause(Append(tr, Line(conn, "ErrExploring", <<>>)))

ListTables ==
    /\ pc = "list_tables"
    /\ \E fail \in BOOLEAN :
         LET r == get_tables(conn, fail)
             tr == Append(trace, Line(conn, "HdrTables", <<>>)) \o r.events
         IN IF r.raised THEN Raised(tr)
            ELSE /\ trace' = tr
                 /\ tables' = r.val
                 /\ pc' = "print_tables"
                 /\ i' = 1
                 /\ UNCHANGED <<conn, db, functions, ai_items, definition, exitStatus>>

PrintTable ==
    /\ pc = "print_tables"
    /\ i <= Len(tables)
    /\ trace' = Append(trace, Line(conn, "TableItem", <<tables[i]>>))
    /\ i' = i + 1
    /\ UNCHANGED <<pc, conn, db, tables, functions, ai_items, definition, exitStatus>>

SchemasHeader ==
    /\ pc = "print_tables"
    /\ i > Len(tables)
    /\ trace' = Append(trace, Line(conn, "HdrSchemas", <<>>))
    /\ pc' = "schemas"
    /\ i' = 1
    /\ UNCHANGED <<conn, db, tables, functions, ai_items, definition, exitStatus>>

\* Variant: the schema loop walks the listing backwards.
DescribeTable_Reversed ==
    /\ pc = "schemas"
    /\ i <= Len(tables)
    /\ \E fail \in BOOLEAN :
         LET table == tables[Len(tables) - i + 1]
             r == get_table_schema(conn, table, fail)
             tr == Append(trace, Line(conn, "TableHdr", <<table>>)) \o r.events
         IN IF r.raised THEN Raised(tr)
            ELSE /\ trace' = tr \o [k \in DOMAIN r.val |->
                                      Line(conn, "ColumnItem", r.val[k])]
                 /\ i' = i + 1
                 /\ UNCHANGED <<pc, conn, db, tables, functions, ai_items, definition, exitStatus>>

DescribeTable ==
    /\ pc = "schemas"
    /\ i <= Len(tables)
    /\ \E fail \in BOOLEAN :
         LET r == get_table_schema(conn, tables[i], fail)
             tr == Append(trace, Line(conn, "TableHdr", <<tables[i]>>)) \o r.events
         IN IF r.raised THEN Raised(tr)
            ELSE /\ trace' = tr \o [k \in DOMAIN r.val |->
                                      Line(conn, "ColumnItem", r.val[k])]
                 /\ i' = i + 1
                 /\ UNCHANGED <<pc, conn, db, tables, functions, ai_items, definition, exitStatus>>

ListFunctions ==
    /\ pc = "schemas"
    /\ i > Len(tables)
    /\ \E fail \in BOOLEAN :
         LET r == get_functions(conn, fail)
             tr == Append(trace, Line(conn, "HdrFunctions", <<>>)) \o r.events
         IN IF r.raised THEN Raised(tr)
            ELSE /\ trace' = tr
                 /\ functions' = r.val
                 /\ pc' = "print_functions"
                 /\ i' = 1
                 /\ UNCHANGED <<conn, db, tables, ai_items, definition, exitStatus>>

PrintFunction ==
    /\ pc = "print_functions"
    /\ i <= Len(functions)
    /\ trace' = Append(trace, Line(conn, "FunctionItem", <<functions[i]>>))
    /\ i' = i + 1
    /\ UNCHANGED <<pc, conn, db, tables, functions, ai_items, definition, exitStatus>>

\* Variant: the "Related Tables:" heading is printed only above matches.
Search_HeaderIfAny ==
    /\ pc = "print_functions"
    /\ i > Len(functions)
    /\ \E failAt \in FailPoints :
         LET r == search_ai_referee_related(conn, failAt)
             tr == Append(trace, Line(conn, "HdrAI", <<>>)) \o r.events
         IN IF r.raised THEN Raised(tr)
            ELSE /\ trace' = IF r.val.tables # <<>>
                             THEN Append(tr, Line(conn, "HdrRelTables", <<>>))
                             ELSE tr
                 /\ ai_items' = r.val
                 /\ pc' = "rel_tables"
                 /\ i' = 1
                 /\ UNCHANGED <<conn, db, tables, functions, definition, exitStatus>>

Search ==
    /\ pc = "print_functions"
    /\ i > Len(functions)
    /\ \E failAt \in FailPoints :
         LET r == search_ai_referee_related(conn, failAt)
             tr == Append(trace, Line(conn, "HdrAI", <<>>)) \o r.events
         IN IF r.raised THEN Raised(tr)
            ELSE /\ trace' = Append(tr, Line(conn, "HdrRelTables", <<>>))
                 /\ ai_items' = r.val
                 /\ pc' = "rel_tables"
                 /\ i' = 1
                 /\ UNCHANGED <<conn, db, tables, functions, definition, exitStatus>>

PrintRelTable ==
    /\ pc = "rel_tables"
    /\ i <= Len(ai_items.tables)
    /\ trace' = Append(trace, Line(conn, "RelTableItem", <<ai_items.tables[i]>>))
    /\ i' = i + 1
    /\ UNCHANGED <<pc, conn, db, tables, functions, ai_items, definition, exitStatus>>

RelFunctionsHeader ==
    /\ pc = "rel_tables"
    /\ i > Len(ai_items.tables)
    /\ trace' = Append(trace, Line(conn, "HdrRelFunctions", <<>>))
    /\ pc' = "rel_functions"
    /\ i' = 1
    /\ UNCHANGED <<conn, db, tables, functions, ai_items, definition, exitStatus>>

\* Variant: the loop walks every listed function, not the matches.
RelFunction_AllFunctions ==
    /\ pc = "rel_functions"
    /\ i <= Len(functions)
    /\ \E outcome \in DefOutcomes :
         LET func == functions[i]
             r == get_function_definition(conn, func, outcome)
             tr == Append(trace, Line(conn, "RelFunctionItem", <<func>>)) \o r.events
         IN IF r.raised THEN Raised(tr)
            ELSE /\ trace' = IF Truthy(r.val)
                             THEN Append(tr, Line(conn, "Preview", Truncate(r.val[1])))
                             ELSE tr
                 /\ definition' = r.val
                 /\ i' = i + 1
                 /\ UNCHANGED <<pc, conn, db, tables, functions, ai_items, exitStatus>>

RelFunction ==
    /\ pc = "rel_functions"
    /\ i <= Len(ai_items.functions)
    /\ \E outcome \in DefOutcomes :
         LET func == ai_items.functions[i]
             r == get_function_definition(conn, func, outcome)
             tr == Append(trace, Line(conn, "RelFunctionItem", <<func>>)) \o r.events
         IN IF r.raised THEN Raised(tr)
            ELSE /\ trace' = IF Truthy(r.val)
                             THEN Append(tr, Line(conn, "Preview", Truncate(r.val[1])))
                             ELSE tr
                 /\ definition' = r.val
                 /\ i' = i + 1
                 /\ UNCHANGED <<pc, conn, db, tables, functions, ai_items, exitStatus>>

RelColumnsHeader ==
    /\ pc = "rel_functions"
    /\ i > Len(ai_items.functions)
    /\ trace' = Append(trace, Line(conn, "HdrRelColumns", <<>>))
    /\ pc' = "rel_columns"
    /\ i' = 1
    /\ UNCHANGED <<conn, db, tables, functions, ai_items, definition, exitStatus>>

PrintRelColumn ==
    /\ pc = "rel_columns"
    /\ i <= Len(ai_items.columns)
    /\ trace' = Append(trace, Line(conn, "RelColumnItem", ai_items.columns[i]))
    /\ i' = i + 1
    /\ UNCHANGED <<pc, conn, db, tables, functions, ai_items, definition, exitStatus>>

\* The end of the try body: the finally clause runs.
Finally ==
    /\ pc = "rel_columns"
    /\ i > Len(ai_items.columns)
    /\ FinallyClause(trace)

Next ==
    \/ ConnectToDb
    \/ ListTables
    \/ PrintTable
    \/ SchemasHeader
    \/ DescribeTable
    \/ ListFunctions
    \/ PrintFunction
    \/ Search
    \/ PrintRelTable
    \/ RelFunctionsHeader
    \/ RelFunction
    \/ RelColumnsHeader
    \/ PrintRelColumn
    \/ Finally

Spec == Init /\ [][Next]_vars

(***************************************************************************)
(* Observations on the run so far                                          *)
(***************************************************************************)
Calls(tag) == CallsIn(trace, tag)
Lines(tag) == LinesIn(trace, tag)
Printed(tag) == Lines(tag) # <<>>
CallArgs(tag) == [k \in DOMAIN Calls(tag) |-> Calls(tag)[k].arg[1]]
Ended == pc \in {"done", "exited"}
IsPrefix(s, t) == Len(s) <= Len(t) /\ s = SubSeq(t, 1, Len(s))
IsLine(e, tag) == e.ev = "print" /\ e.tag = tag

\* C1: once connect_to_db has returned a connection, close() is never called
\* twice, and when the process has ended it has been called exactly once,
\* whichever queries failed on the way.
C1_CloseExactlyOnce ==
    /\ Len(Calls("close")) <= 1
    /\ (Ended /\ Printed("Connected")) => Len(Calls("close")) = 1

C1_Witness ==
    /\ pc = "done"
    /\ Printed("ErrSchema")
    /\ Printed("ErrSearch")
    /\ Len(Calls("close")) = 1

\* C2: a failed connect prints the connection error and exits with status 1
\* having printed nothing else and called no query; a run whose connect
\* succeeded ends with status 0, also when sub-queries degraded.
C2_ExitStatus ==
    /\ Printed("ErrConnect") =>
          /\ exitStatus = "1"
          /\ pc = "exited"
          /\ trace = <<Call("none", "connect_to_db", <<>>),
                       Line("none", "ErrConnect", <<>>)>>
    /\ exitStatus = "1" => Printed("ErrConnect")
    /\ (Ended /\ Printed("Connected")) => exitStatus = "0"

C2_Witness ==
    /\ pc = "exited"
    /\ exitStatus = "1"
    /\ Printed("ErrConnect")

SectionHeaders ==
    {"HdrTables", "HdrSchemas", "HdrFunctions", "HdrAI",
     "HdrRelTables", "HdrRelFunctions", "HdrRelColumns"}

\* C3: a failing query never reaches main's except clause; its helper
\* prints the error and returns an empty list (None for a definition), and
\* a finished run has printed every section header once.
C3_FailuresStayLocal ==
    /\ ~ Printed("ErrExploring")
    /\ pc = "done" => \A h \in SectionHeaders : Len(Lines(h)) = 1
    /\ Printed("ErrTables") => tables = <<>>
    /\ Printed("ErrFunctions") => functions = <<>>
    /\ Printed("ErrSearch") => ai_items = EmptyBundle
    /\ \A k \in DOMAIN trace :
          /\ IsLine(trace[k], "ErrSchema") =>
                (k < Len(trace) => ~ IsLine(trace[k + 1], "ColumnItem"))
          /\ IsLine(trace[k], "ErrDefinition") =>
                (k < Len(trace) => ~ IsLine(trace[k + 1], "Preview"))
    /\ (Printed("ErrDefinition") /\ IsLine(trace[Len(trace)], "ErrDefinition"))
          => definition = <<>>

C3_Witness ==
    /\ pc = "done"
    /\ Printed("ErrSchema")
    /\ Printed("ErrFunctions")
    /\ Printed("ErrSearch")

\* The lines printed right after the k-th event, as far as they are columns.
RECURSIVE ColumnRun(_)
ColumnRun(k) ==
    IF k > Len(trace) \/ ~ IsLine(trace[k], "ColumnItem") THEN <<>>
    ELSE <<trace[k].arg>> \o ColumnRun(k + 1)

\* C4: get_table_schema is called once per listed table, in listing order,
\* and for no other name; a table's columns are printed in the order the
\* schema query returned them.
C4_SchemaPerTable ==
    /\ IsPrefix(CallArgs("get_table_schema"), tables)
    /\ pc \notin {"connect", "list_tables", "print_tables", "schemas"}
          => CallArgs("get_table_schema") = tables
    /\ \A a, b \in DOMAIN CallArgs("get_table_schema") :
          a # b => CallArgs("get_table_schema")[a] # CallArgs("get_table_schema")[b]
    /\ \A k \in DOMAIN trace :
          (trace[k].ev = "call" /\ trace[k].tag = "get_table_schema") =>
             IF k < Len(trace) /\ IsLine(trace[k + 1], "ErrSchema")
             THEN ColumnRun(k + 2) = <<>>
             ELSE ColumnRun(k + 1) = TableColumns(trace[k].arg[1])

C4_Witness ==
    /\ pc = "done"
    /\ Len(tables) = MaxTables
    /\ ~ Printed("ErrSchema")
    /\ Printed("ColumnItem")

(***************************************************************************)
(* The steps of the report                                                 *)
(***************************************************************************)
StepOfCall(tag) ==
    IF tag = "connect_to_db" THEN 1
    ELSE IF tag = "get_tables" THEN 2
    ELSE IF tag = "get_table_schema" THEN 3
    ELSE IF tag = "get_functions" THEN 4
    ELSE IF tag = "search_ai_referee_related" THEN 5
    ELSE IF tag = "get_function_definition" THEN 6
    ELSE 7

\* The step a printed line belongs to.  The matching tables and matching
\* columns are output of the search; the name of a matching function is
\* counted with its definition fetch, the most lenient reading, and the
\* headings "Related Functions:" and "Related Columns:" with whichever of
\* the two steps is under way (0).
StepOfLine(tag) ==
    IF tag \in {"Connected", "ErrConnect"} THEN 1
    ELSE IF tag \in {"HdrTables", "ErrTables", "TableItem"} THEN 2
    ELSE IF tag \in {"HdrSchemas", "TableHdr", "ErrSchema", "ColumnItem"} THEN 3
    ELSE IF tag \in {"HdrFunctions", "ErrFunctions", "FunctionItem"} THEN 4
    ELSE IF tag \in {"HdrAI", "ErrSearch", "HdrRelTables", "RelTableItem",
                     "RelColumnItem"} THEN 5
    ELSE IF tag \in {"RelFunctionItem", "ErrDefinition", "Preview"} THEN 6
    ELSE IF tag \in {"HdrRelFunctions", "HdrRelColumns"} THEN 0
    ELSE 7

StepOf(e) ==
    IF e.ev = "call" THEN StepOfCall(e.tag)
    ELSE IF e.ev = "execute" THEN 5
    ELSE StepOfLine(e.tag)

\* The search and the definition fetches taken as one step.
MergedStepOf(e) == IF StepOf(e) \in {0, 6} THEN 5 ELSE StepOf(e)

SingleCalls ==
    {"connect_to_db", "get_tables", "get_functions",
     "search_ai_referee_related", "close"}

NoStepTwice ==
    /\ \A tag \in SingleCalls : Len(Calls(tag)) <= 1
    /\ Len(Calls("get_table_schema")) <= Len(tables)
    /\ Len(Calls("get_function_definition")) <= Len(ai_items.functions)

IsCall(e, tag) == e.ev = "call" /\ e.tag = tag

\* C5 as stated: every event of a step, its output included, comes before
\* every event of the next step, and no step runs twice.
C5_StepsStrictlyOrdered ==
    /\ \A a, b \in DOMAIN trace :
          (a < b /\ StepOf(trace[a]) # 0 /\ StepOf(trace[b]) # 0)
             => StepOf(trace[a]) <= StepOf(trace[b])
    /\ NoStepTwice

\* C5, amended: the helper calls come in step order and none is repeated;
\* the steps up to the function listing are complete, output included,
\* before the next begins; the matches of the search are printed after it
\* returned and before close, the matching columns after the last
\* definition fetch.
C5_StepsOrdered ==
    /\ NoStepTwice
    /\ \A a, b \in DOMAIN trace :
          a < b =>
             /\ MergedStepOf(trace[a]) <= MergedStepOf(trace[b])
             /\ (trace[a].ev = "call" /\ trace[b].ev = "call")
                   => StepOf(trace[a]) <= StepOf(trace[b])
             /\ IsCall(trace[a], "get_function_definition")
                   => ~ IsLine(trace[b], "RelTableItem")
             /\ IsLine(trace[a], "RelColumnItem")
                   => ~ IsCall(trace[b], "get_function_definition")
    /\ Calls("get_table_schema") # <<>> => Len(Lines("TableItem")) = Len(tables)
    /\ Calls("get_functions") # <<>> =>
          /\ Len(Lines("TableItem")) = Len(tables)
          /\ Len(Lines("TableHdr")) = Len(tables)
    /\ Calls("search_ai_referee_related") # <<>>
          => Len(Lines("FunctionItem")) = Len(functions)
    /\ Calls("close") # <<>> =>
          /\ Len(Lines("RelTableItem")) = Len(ai_items.tables)
          /\ Len(Lines("RelFunctionItem")) = Len(ai_items.functions)
          /\ Len(Lines("RelColumnItem")) = Len(ai_items.columns)

C5_Witness ==
    /\ pc = "done"
    /\ \E a, b \in DOMAIN trace :
          /\ a < b
          /\ IsCall(trace[a], "get_function_definition")
          /\ IsLine(trace[b], "RelColumnItem")

(***************************************************************************)
(* The connection                                                          *)
(***************************************************************************)
ConnState ==
    IF conn = "none" THEN "disconnected"
    ELSE IF conn = "closed" THEN "terminal"
    ELSE IF pc = "list_tables" THEN "connected"
    ELSE "reporting"

ConnMoves ==
    { <<"disconnected", "connected">>, <<"connected", "reporting">>,
      <<"reporting", "terminal">> }

QueriesUnderOpenConnection ==
    /\ Len(Calls("connect_to_db")) <= 1
    /\ \A k \in DOMAIN trace :
          /\ (trace[k].ev \in {"call", "execute"} /\ trace[k].tag # "connect_to_db")
                => trace[k].conn = "open"
          /\ IsCall(trace[k], "connect_to_db") => trace[k].conn = "none"
          /\ IsCall(trace[k], "close") =>
                \A m \in DOMAIN trace : m > k => trace[m].ev = "print"

\* C6: the connection moves disconnected -> connected -> reporting ->
\* disconnected for good, one step at a time and never back; it is opened
\* at most once, and every query is issued while it is open.
C6_ConnectionLifecycle ==
    /\ [] QueriesUnderOpenConnection
    /\ [][ConnState' = ConnState \/ <<ConnState, ConnState'>> \in ConnMoves]_vars

C6_Witness ==
    /\ pc = "done"
    /\ conn = "closed"
    /\ Calls("get_table_schema") # <<>>
    /\ Calls("get_function_definition") # <<>>

(***************************************************************************)
(* The keyword search and the definition previews                          *)
(***************************************************************************)
Range(s) == { s[k] : k \in DOMAIN s }

\* C7: get_function_definition is called for the names of
\* ai_items['functions'] only, once per entry and in list order; never for
\* a listed function the search did not match, never after a failed search.
C7_DefinitionsForMatchesOnly ==
    /\ IsPrefix(CallArgs("get_function_definition"), ai_items.functions)
    /\ pc \in {"rel_columns", "done"}
          => CallArgs("get_function_definition") = ai_items.functions
    /\ \A f \in Range(CallArgs("get_function_definition")) :
          IsRelated(f) /\ f \in Range(RelatedFunctions)
    /\ Printed("ErrSearch") => Calls("get_function_definition") = <<>>

C7_Witness ==
    /\ pc = "done"
    /\ "calc_score" \in Range(functions)
    /\ Len(Calls("get_function_definition")) = 1
    /\ ~ Printed("ErrSearch")

EmptyCatalog == db.tables = <<>> /\ db.functions = <<>>

LineTags == LET ls == SelectSeq(trace, LAMBDA e : e.ev = "print")
            IN [k \in DOMAIN ls |-> ls[k].tag]

\* C8: with a catalog that holds no object, no schema and no definition is
\* fetched, nothing reaches main's except clause, and a run whose queries
\* all returned prints exactly the section headers and closes.
C8_EmptyCatalogReport ==
    EmptyCatalog =>
       /\ Calls("get_table_schema") = <<>>
       /\ Calls("get_function_definition") = <<>>
       /\ ~ Printed("ErrExploring")
       /\ (pc = "done" /\ ~ HasError(trace)) =>
             /\ LineTags = <<"Connected", "HdrTables", "HdrSchemas", "HdrFunctions",
                             "HdrAI", "HdrRelTables", "HdrRelFunctions",
                             "HdrRelColumns", "Closed">>
             /\ conn = "closed"
             /\ Len(Calls("close")) = 1
             /\ exitStatus = "0"

C8_Witness ==
    /\ EmptyCatalog
    /\ pc = "done"
    /\ ~ HasError(trace)

Min(a, b) == IF a <= b THEN a ELSE b

\* C9: after each pass of the Related Functions loop, the function's name
\* has been printed; if the fetch returned a text, the one line printed
\* after the name is the preview with the first 100 characters of the text
\* (all of it if shorter); if it returned None, no preview is printed; and
\* every matching function gets its pass.
C9_DefinitionPreview ==
    /\ (pc = "rel_functions" /\ i > 1) =>
          LET n == Len(trace)
              f == ai_items.functions[i - 1]
              name == Line("open", "RelFunctionItem", <<f>>)
              call == Call("open", "get_function_definition", <<f>>)
          IN IF definition # <<>>
             THEN /\ IsLine(trace[n], "Preview")
                  /\ Len(trace[n].arg) = Min(Len(definition[1]), PreviewLen)
                  /\ \A j \in DOMAIN trace[n].arg : trace[n].arg[j] = definition[1][j]
                  /\ trace[n - 1] = call
                  /\ trace[n - 2] = name
             ELSE \/ trace[n] = call /\ trace[n - 1] = name
                  \/ /\ IsLine(trace[n], "ErrDefinition")
                     /\ trace[n - 1] = call
                     /\ trace[n - 2] = name
    /\ \A k \in DOMAIN trace :
          IsLine(trace[k], "Preview") =>
             IsCall(trace[k - 1], "get_function_definition")
    /\ pc \in {"rel_columns", "done"} =>
          [k \in DOMAIN Lines("RelFunctionItem") |-> Lines("RelFunctionItem")[k].arg[1]]
             = ai_items.functions

C9_Witness ==
    /\ pc = "rel_functions"
    /\ i = 3
    /\ definition # <<>>
    /\ Len(definition[1]) > PreviewLen
    /\ Len(Lines("Preview")) = 1

FullBundle ==
    [tables |-> RelatedTables, functions |-> RelatedFunctions,
     columns |-> RelatedColumns]

\* C10: a search one of whose three queries failed returns three empty
\* lists, whatever the earlier queries had fetched; a search without a
\* failure returns all three result lists.
C10_SearchAllOrNothing ==
    /\ Printed("ErrSearch") => ai_items = EmptyBundle
    /\ (Calls("search_ai_referee_related") # <<>> /\ ~ Printed("ErrSearch")
        /\ ~ Printed("ErrExploring"))
          => ai_items = FullBundle

C10_Witness ==
    /\ Printed("ErrSearch")
    /\ \E k \in DOMAIN trace : trace[k].ev = "execute" /\ trace[k].tag = "search_columns"
    /\ RelatedTables # <<>>
    /\ RelatedFunctions # <<>>
    /\ ai_items = EmptyBundle
====
